---- MODULE Spec2Model ----
(***************************************************************************)
(* Model of modelagem.py: the training / prediction script built on        *)
(* pandas, scikit-learn and PyCaret.                                       *)
(*                                                                         *)
(* The script is one linear run: read the spreadsheet, select columns,     *)
(* split train/test, setup + compare_models, pull the results table,       *)
(* unite_predicts_models on test then on train, write the two CSV files.   *)
(* Every statement is one step of the run; a step whose library call can   *)
(* raise has a failing outcome, and an exception ends the run (the script  *)
(* has no try/except).                                                     *)
(*                                                                         *)
(* Library calls are modelled by their documented behaviour:               *)
(*  - a DataFrame is an index (row labels) and an ordered list of named    *)
(*    columns, duplicates of a column name allowed;                        *)
(*  - a cell is a symbolic value [src, row, dtype]: the column and row of  *)
(*    the spreadsheet it comes from, or the model that predicted it;       *)
(*  - numpy's generator is a small linear congruential generator and the   *)
(*    permutation a Fisher-Yates shuffle driven by it: what matters is     *)
(*    that a permutation is a function of the generator's state.           *)
(***************************************************************************)
EXTENDS Integers, Sequences, FiniteSets, TLC

VARIABLES
    pc,            \* the statement the run is at, or "done" / "failed"
    err,           \* the exception that ended the run ("" while none)
    sheet,         \* the input spreadsheet on disk
    disk,          \* the output directory and the files in it
    rng,           \* the state of numpy's global generator
    run,           \* number of the split being run (split harness)
    prev,          \* the previous split of the same dataset (split harness)
    dados,
    dados_select,
    train_data,
    test_data,
    clf,           \* the PyCaret experiment returned by setup()
    models_train,
    resultados,
    names_models,
    call,          \* the frame of the running unite_predicts_models call
    results_test,
    results_train

vars == <<pc, err, sheet, disk, rng, run, prev, dados, dados_select, train_data,
          test_data, clf, models_train, resultados, names_models, call,
          results_test, results_train>>

---------------------------------------------------------------------------
(* Bounds of the model *)

MaxRows == 4
MaxModels == 3
MaxEntropy == 2
MaxRuns == 2
MaxUniteRows == 5
MaxIds == 2
MaxSplitRows == 10

(* Constants of the script *)

vary == "Umidade"
\* "Classificacao" stands for the column the script spells with a cedilla and a tilde
categorical_features == <<"Site", "Classificacao", "Profundidade">>
ignore_features == <<"Time", "ID">>
numeric_features == <<"Rain_sum", "TM_mean", "URM_mean", "DPVM_mean", "Rg_mean">>
SelectColumns == ignore_features \o <<vary>> \o numeric_features \o categorical_features
folder_save == "u10_u60"
type_save == "_week_" \o vary
OutDir == "./resultados/" \o folder_save
TestPath == OutDir \o "/test_predict" \o type_save \o ".csv"
TrainPath == OutDir \o "/train_predict" \o type_save \o ".csv"
IdColumns == <<"Time", "ID", "Profundidade">>
TestSizeTenths == 3
RandomState == 42
NSelect == 26

---------------------------------------------------------------------------
(* pandas: frames *)

Range(s) == {s[i] : i \in DOMAIN s}

NoFrame == [bound |-> FALSE, index |-> <<>>, columns |-> <<>>]

Frame(index, columns) == [bound |-> TRUE, index |-> index, columns |-> columns]

ColNames(df) == [k \in 1..Len(df.columns) |-> df.columns[k].name]

HasCol(df, c) == \E k \in 1..Len(df.columns) : df.columns[k].name = c

HasCols(df, names) == \A k \in 1..Len(names) : HasCol(df, names[k])

GetCol(df, c) == df.columns[CHOOSE k \in 1..Len(df.columns) : df.columns[k].name = c]

\* df[[c1, c2, ...]]: the named columns, in the order asked for
SelectCols(df, names) ==
    Frame(df.index, [k \in 1..Len(names) |-> GetCol(df, names[k])])

\* df[c]: one column as a Series (kept as a one-column frame)
Series(df, c) == Frame(df.index, <<GetCol(df, c)>>)

\* df.iloc[positions], positions counted from 0
ILoc(df, positions) ==
    Frame([k \in 1..Len(positions) |-> df.index[positions[k] + 1]],
          [c \in 1..Len(df.columns) |->
              [name |-> df.columns[c].name,
               vals |-> [k \in 1..Len(positions) |-> df.columns[c].vals[positions[k] + 1]]]])

RECURSIVE FlattenColumns(_)
FlattenColumns(frames) ==
    IF frames = <<>> THEN <<>>
    ELSE Head(frames).columns \o FlattenColumns(Tail(frames))

\* pd.concat(frames, axis=1) of frames that share one index: the columns of
\* the frames side by side, in order; a column name that occurs twice stays twice
Concat(frames) == Frame(Head(frames).index, FlattenColumns(frames))

\* Whether string sub occurs in string s
Contains(s, sub) ==
    \E k \in 1..(Len(s) - Len(sub) + 1) : SubSeq(s, k, k + Len(sub) - 1) = sub

RECURSIVE SelectSeq2(_, _)
SelectSeq2(cols, like) ==
    IF cols = <<>> THEN <<>>
    ELSE IF Contains(Head(cols).name, like)
         THEN <<Head(cols)>> \o SelectSeq2(Tail(cols), like)
         ELSE SelectSeq2(Tail(cols), like)

\* df.filter(like=s): the columns whose name contains s
FilterLike(df, like) == Frame(df.index, SelectSeq2(df.columns, like))

---------------------------------------------------------------------------
(* 1. Reading and preparing the data *)

SheetCell(c, r) == [src |-> c, row |-> r, dtype |-> "raw"]

\* pd.read_excel: a RangeIndex 0..n-1 and the sheet's columns
ReadExcel(sh) ==
    Frame([k \in 1..sh.n |-> k - 1],
          [c \in 1..Len(sh.cols) |->
              [name |-> sh.cols[c],
               vals |-> [k \in 1..sh.n |-> SheetCell(sh.cols[c], k - 1)]]])

\* dados['Profundidade'] = dados['Profundidade'].astype(str)
AsTypeStr(df, c) ==
    Frame(df.index,
          [k \in 1..Len(df.columns) |->
              IF df.columns[k].name = c
              THEN [name |-> c,
                    vals |-> [i \in 1..Len(df.index) |->
                                 [df.columns[k].vals[i] EXCEPT !.dtype = "str"]]]
              ELSE df.columns[k]])

---------------------------------------------------------------------------
(* 2. Train / test split (sklearn.model_selection.train_test_split) *)

\* The generator: a linear congruential generator on 4 bits
LcgNext(st) == (5 * st + 3) % 16

\* RandomState(seed): a fresh generator whose state is fixed by the seed
Seed(seed) == seed % 16

\* The states the process-wide generator may start in (OS entropy)
Entropy == 0..MaxEntropy

Swap(s, a, b) == [s EXCEPT ![a] = s[b], ![b] = s[a]]

RECURSIVE Shuffle(_, _, _)
Shuffle(s, i, st) ==
    IF i <= 1 THEN s
    ELSE LET st2 == LcgNext(st)
             j == (st2 % i) + 1
         IN  Shuffle(Swap(s, i, j), i - 1, st2)

\* rng.permutation(n): a Fisher-Yates shuffle of 0..n-1 driven by the generator
Permutation(st, n) == Shuffle([k \in 1..n |-> k - 1], n, st)

\* check_random_state(None): the process-wide generator, whatever state it is in
CheckRandomStateNone(seed, global) == global

\* check_random_state(42): an int seeds a generator of its own
CheckRandomState(seed, global) == Seed(seed)

\* n_test = ceil(test_size * n_samples), test_size = 0.3
NTest(n) == (TestSizeTenths * n + 9) \div 10

\* n_train = n_samples - n_test; an empty train set is a ValueError
SplitRaises(df) == Len(df.index) - NTest(Len(df.index)) <= 0

\* A split whose train part starts one position early
TrainTestSplitOverlap(df, global) ==
    LET n == Len(df.index)
        n_test == NTest(n)
        perm == Permutation(CheckRandomState(RandomState, global), n)
    IN  [train |-> ILoc(df, SubSeq(perm, n_test, n)),
         test |-> ILoc(df, SubSeq(perm, 1, n_test))]

\* train_test_split(df, test_size=0.3, random_state=42): the first n_test
\* positions of the permutation are the test rows, the rest the train rows
TrainTestSplit(df, global) ==
    LET n == Len(df.index)
        n_test == NTest(n)
        n_train == n - n_test
        perm == Permutation(CheckRandomState(RandomState, global), n)
    IN  [train |-> ILoc(df, SubSeq(perm, n_test + 1, n_test + n_train)),
         test |-> ILoc(df, SubSeq(perm, 1, n_test))]

---------------------------------------------------------------------------
(* 3. / 4. PyCaret: setup, compare_models, pull *)

NoClf == [bound |-> FALSE, data |-> NoFrame, target |-> "", ignore_features |-> <<>>,
          categorical_features |-> <<>>, setups |-> 0, display |-> <<>>]

\* The whole dataset handed to the trainer instead of the train subset
SetupDataAll == dados_select

\* data=train_data
SetupData == train_data

\* setup(...): the experiment, configured once with the data it is given
Setup(old, data) ==
    [bound |-> TRUE, data |-> data, target |-> vary,
     ignore_features |-> ignore_features,
     categorical_features |-> categorical_features,
     setups |-> old.setups + 1, display |-> <<>>]

\* The estimators compare_models can rank (ids of PyCaret's model library)
CandidateIds == {"lr", "knn", "dt"}

\* An estimator trained by the experiment: fitted on rows of the experiment's data
Estimator(id, experiment) == [id |-> id, fit |-> Range(experiment.data.index)]

\* The rankings cross-validation may produce: the candidates that did not fail,
\* best first, each once
Rankings ==
    UNION {{r \in [1..k -> CandidateIds] : \A a, b \in 1..k : a # b => r[a] # r[b]}
           : k \in 0..MaxModels}

\* The score grid of a ranking: one row per estimator, its id as the row's index
ScoreGrid(ranking) == [k \in 1..Len(ranking) |-> [index |-> ranking[k]]]

Min(a, b) == IF a <= b THEN a ELSE b

\* The names taken from the grid in reverse order
NamesOfReversed(grid) == [k \in 1..Len(grid) |-> grid[Len(grid) + 1 - k].index]

\* resultados["index"] after reset_index(): the ids, in the grid's order
NamesOf(grid) == [k \in 1..Len(grid) |-> grid[k].index]

\* compare_models(n_select=26): the n_select best estimators of the ranking in
\* rank order; PyCaret returns the estimator itself, not a list, when it is one
CompareModels(experiment, ranking) ==
    LET top == [k \in 1..Min(NSelect, Len(ranking)) |-> Estimator(ranking[k], experiment)]
    IN  [bound |-> TRUE, list |-> Len(top) # 1, items |-> top]

NoModels == [bound |-> FALSE, list |-> TRUE, items |-> <<>>]

---------------------------------------------------------------------------
(* 5. extract_pred_classe and unite_predicts_models *)

PredCell(model, r) == [src |-> model.id, row |-> r, dtype |-> "pred"]

\* predict_model(model, data): data with the column prediction_label appended
PredictModel(model, data) ==
    Frame(data.index,
          data.columns \o
          <<[name |-> "prediction_label",
             vals |-> [k \in 1..Len(data.index) |-> PredCell(model, data.index[k])]]>>)

\* A filter that keeps every column of the prediction frame
KeepAll(df, like) == df

\* predictions.filter(like='predic')
KeepPredic(df, like) == FilterLike(df, like)

\* The new column name with its two parts swapped
NewNameSwapped(name_model, item) == item \o "_" \o name_model

\* name_model + "_" + item
NewName(name_model, item) == name_model \o "_" \o item

ExtractPredClasse(model, data, name_model) ==
    LET predictions == KeepPredic(PredictModel(model, data), "predic")
    IN  Frame(predictions.index,
              [k \in 1..Len(predictions.columns) |->
                  [predictions.columns[k] EXCEPT
                      !.name = NewName(name_model, predictions.columns[k].name)]])

NoCall == [phase |-> "idle", models_predict |-> NoModels, data |-> NoFrame,
           col_name_target |-> "", col_name_id |-> [kind |-> "list", s |-> "", l |-> <<>>],
           names_models |-> <<>>, ids |-> <<>>, i |-> 0, result_predict |-> <<>>,
           out |-> NoFrame, exc |-> ""]

\* The call unite_predicts_models(models, data, target, ids, names)
CallOf(models, data, target, ids, names) ==
    [NoCall EXCEPT !.phase = "args", !.models_predict = models, !.data = data,
                   !.col_name_target = target, !.col_name_id = ids,
                   !.names_models = names]

ListIds(l) == [kind |-> "list", s |-> "", l |-> l]
StrId(s) == [kind |-> "str", s |-> s, l |-> <<>>]

\* The frames concatenated with the identifiers last
ConcatOrderIdsLast(idframe, result_predict) == Concat(result_predict \o <<idframe>>)

\* pd.concat([data[col_name_id]] + result_predict, axis=1)
ConcatOrder(idframe, result_predict) == Concat(<<idframe>> \o result_predict)

---------------------------------------------------------------------------
(* 6. Export (DataFrame.to_csv) *)

\* to_csv(path, index=False, sep=";"): a header row and one line per row,
\* without the index; a write that breaks off leaves the lines written so far
Csv(path, df, complete) ==
    [path |-> path, sep |-> ";", complete |-> complete,
     header |-> ColNames(df),
     rows |-> IF complete
              THEN [k \in 1..Len(df.index) |->
                       [c \in 1..Len(df.columns) |-> df.columns[c].vals[k]]]
              ELSE <<>>]

\* An export that first creates the directory when it is missing
OpenForWriteMakedirs(d) ==
    [ok |-> d.dir \in {"ok", "missing"},
     dir |-> IF d.dir = "missing" THEN "ok" ELSE d.dir]

\* to_csv opens the file in the directory as it is: a missing or read-only
\* directory is an OSError, and nothing is created
OpenForWrite(d) == [ok |-> d.dir = "ok", dir |-> d.dir]

---------------------------------------------------------------------------
(* The script, statement by statement *)

\* The script with the test table written before the train table is computed
StepAfterEarlyWrite(step) ==
    CASE step = "read" -> "astype"
      [] step = "astype" -> "select"
      [] step = "select" -> "split"
      [] step = "split" -> "setup"
      [] step = "setup" -> "compare"
      [] step = "compare" -> "pull"
      [] step = "pull" -> "unite_test"
      [] step = "unite_test" -> "write_test"
      [] step = "write_test" -> "unite_train"
      [] step = "unite_train" -> "write_train"
      [] step = "write_train" -> "done"

\* The order of the script's statements
StepAfter(step) ==
    CASE step = "read" -> "astype"
      [] step = "astype" -> "select"
      [] step = "select" -> "split"
      [] step = "split" -> "setup"
      [] step = "setup" -> "compare"
      [] step = "compare" -> "pull"
      [] step = "pull" -> "unite_test"
      [] step = "unite_test" -> "unite_train"
      [] step = "unite_train" -> "write_test"
      [] step = "write_test" -> "write_train"
      [] step = "write_train" -> "done"

NoErr == [at |-> "", exc |-> ""]

\* An uncaught exception: the run ends at this statement
Raise(step, exc) ==
    /\ pc' = "failed"
    /\ err' = [at |-> step, exc |-> exc]

Goto(step) ==
    /\ pc' = step
    /\ err' = err

\* The layouts the spreadsheet may have: the expected columns, the expected
\* columns and one more, and two layouts that lack an expected column
SheetLayouts ==
    {<<"ID", "Time">> \o categorical_features \o <<vary>> \o numeric_features,
     <<"ID", "Time", "Obs">> \o categorical_features \o <<vary>> \o numeric_features,
     <<"ID", "Time", "Site", "Classificacao", vary>> \o numeric_features,
     <<"ID", "Time">> \o categorical_features \o numeric_features}

Sheets ==
    {[exists |-> FALSE, cols |-> <<>>, n |-> 0]} \cup
    {[exists |-> TRUE, cols |-> c, n |-> n] : c \in SheetLayouts, n \in 0..MaxRows}

NoPrev == [bound |-> FALSE, ok |-> FALSE, train |-> NoFrame, test |-> NoFrame]

Init ==
    /\ pc = "read"
    /\ err = NoErr
    /\ sheet \in Sheets
    /\ disk \in {[dir |-> d, files |-> {}] : d \in {"ok", "missing", "readonly"}}
    /\ rng \in Entropy
    /\ run = 1
    /\ prev = NoPrev
    /\ dados = NoFrame
    /\ dados_select = NoFrame
    /\ train_data = NoFrame
    /\ test_data = NoFrame
    /\ clf = NoClf
    /\ models_train = NoModels
    /\ resultados = <<>>
    /\ names_models = <<>>
    /\ call = NoCall
    /\ results_test = NoFrame
    /\ results_train = NoFrame

\* dados = pd.read_excel(...)
Read ==
    /\ pc = "read"
    /\ IF sheet.exists
       THEN dados' = ReadExcel(sheet) /\ Goto(StepAfter("read"))
       ELSE dados' = dados /\ Raise("read", "FileNotFoundError")
    /\ UNCHANGED <<sheet, disk, rng, run, prev, dados_select, train_data, test_data,
                   clf, models_train, resultados, names_models, call,
                   results_test, results_train>>

\* dados['Profundidade'] = dados['Profundidade'].astype(str)
AsType ==
    /\ pc = "astype"
    /\ IF HasCol(dados, "Profundidade")
       THEN dados' = AsTypeStr(dados, "Profundidade") /\ Goto(StepAfter("astype"))
       ELSE dados' = dados /\ Raise("astype", "KeyError")
    /\ UNCHANGED <<sheet, disk, rng, run, prev, dados_select, train_data, test_data,
                   clf, models_train, resultados, names_models, call,
                   results_test, results_train>>

\* dados_select = dados[ignore_features + [vary, ...] + categorical_features]
Select ==
    /\ pc = "select"
    /\ IF HasCols(dados, SelectColumns)
       THEN dados_select' = SelectCols(dados, SelectColumns) /\ Goto(StepAfter("select"))
       ELSE dados_select' = dados_select /\ Raise("select", "KeyError")
    /\ UNCHANGED <<sheet, disk, rng, run, prev, dados, train_data, test_data,
                   clf, models_train, resultados, names_models, call,
                   results_test, results_train>>

\* train_data, test_data = train_test_split(dados_select, test_size=0.3, random_state=42)
Split ==
    /\ pc = "split"
    /\ IF SplitRaises(dados_select)
       THEN /\ Raise("split", "ValueError")
            /\ UNCHANGED <<train_data, test_data>>
       ELSE /\ train_data' = TrainTestSplit(dados_select, rng).train
            /\ test_data' = TrainTestSplit(dados_select, rng).test
            /\ Goto(StepAfter("split"))
    /\ UNCHANGED <<sheet, disk, rng, run, prev, dados, dados_select,
                   clf, models_train, resultados, names_models, call,
                   results_test, results_train>>

\* clf = setup(data=train_data, target=vary, ...); the library may refuse the data
SetupStep ==
    /\ pc = "setup"
    /\ \E ok \in BOOLEAN :
          IF ok
          THEN clf' = Setup(clf, SetupData) /\ Goto(StepAfter("setup"))
          ELSE clf' = clf /\ Raise("setup", "ValueError")
    /\ UNCHANGED <<sheet, disk, rng, run, prev, dados, dados_select, train_data,
                   test_data, models_train, resultados, names_models, call,
                   results_test, results_train>>

\* models_train = clf.compare_models(verbose=True, n_select=26, turbo=False)
Compare ==
    /\ pc = "compare"
    /\ \E ok \in BOOLEAN :
          IF ok
          THEN \E ranking \in Rankings :
                  /\ models_train' = CompareModels(clf, ranking)
                  /\ clf' = [clf EXCEPT !.display = ScoreGrid(ranking)]
                  /\ Goto(StepAfter("compare"))
          ELSE /\ UNCHANGED <<models_train, clf>>
               /\ Raise("compare", "RuntimeError")
    /\ UNCHANGED <<sheet, disk, rng, run, prev, dados, dados_select, train_data,
                   test_data, resultados, names_models, call,
                   results_test, results_train>>

\* resultados = pull().reset_index(); names_models = resultados["index"]
Pull ==
    /\ pc = "pull"
    /\ resultados' = clf.display
    /\ names_models' = NamesOf(clf.display)
    /\ Goto(StepAfter("pull"))
    /\ UNCHANGED <<sheet, disk, rng, run, prev, dados, dados_select, train_data,
                   test_data, clf, models_train, call, results_test, results_train>>

\* unite_predicts_models(models_train, <subset>, vary, ["Time", "ID", "Profundidade"], names_models)
CallUnite ==
    /\ pc \in {"unite_test", "unite_train"}
    /\ call.phase = "idle"
    /\ call' = CallOf(models_train,
                      IF pc = "unite_test" THEN test_data ELSE train_data,
                      vary, ListIds(IdColumns), names_models)
    /\ UNCHANGED <<pc, err, sheet, disk, rng, run, prev, dados, dados_select,
                   train_data, test_data, clf, models_train, resultados,
                   names_models, results_test, results_train>>

\* Lines 117-122: a single identifier becomes a list; the observed column first
UniteBegin ==
    /\ call.phase = "args"
    /\ IF HasCol(call.data, call.col_name_target)
       THEN call' = [call EXCEPT
                        !.phase = "loop",
                        !.ids = IF call.col_name_id.kind = "str"
                                THEN <<call.col_name_id.s>>
                                ELSE call.col_name_id.l,
                        !.i = 0,
                        !.result_predict = <<Series(call.data, call.col_name_target)>>]
       ELSE call' = [call EXCEPT !.phase = "raised", !.exc = "KeyError"]
    /\ UNCHANGED <<pc, err, sheet, disk, rng, run, prev, dados, dados_select,
                   train_data, test_data, clf, models_train, resultados,
                   names_models, results_test, results_train>>

\* Lines 125-127: one turn of the loop; enumerate() of an estimator that is not
\* a list, names_models[i] past the end and predict_model itself may raise
UniteIter ==
    /\ call.phase = "loop"
    /\ call.models_predict.list => call.i < Len(call.models_predict.items)
    /\ IF ~call.models_predict.list
       THEN call' = [call EXCEPT !.phase = "raised", !.exc = "TypeError"]
       ELSE IF call.i + 1 > Len(call.names_models)
       THEN call' = [call EXCEPT !.phase = "raised", !.exc = "KeyError"]
       ELSE \E ok \in BOOLEAN :
               IF ok
               THEN call' = [call EXCEPT
                                !.i = call.i + 1,
                                !.result_predict =
                                    Append(call.result_predict,
                                           ExtractPredClasse(
                                               call.models_predict.items[call.i + 1],
                                               call.data,
                                               call.names_models[call.i + 1]))]
               ELSE call' = [call EXCEPT !.phase = "raised", !.exc = "ValueError"]
    /\ UNCHANGED <<pc, err, sheet, disk, rng, run, prev, dados, dados_select,
                   train_data, test_data, clf, models_train, resultados,
                   names_models, results_test, results_train>>

\* Lines 130-131: identifiers, observed column and predictions side by side
UniteReturn ==
    /\ call.phase = "loop"
    /\ call.models_predict.list
    /\ call.i = Len(call.models_predict.items)
    /\ IF HasCols(call.data, call.ids)
       THEN call' = [call EXCEPT
                        !.phase = "returned",
                        !.out = ConcatOrder(SelectCols(call.data, call.ids),
                                            call.result_predict)]
       ELSE call' = [call EXCEPT !.phase = "raised", !.exc = "KeyError"]
    /\ UNCHANGED <<pc, err, sheet, disk, rng, run, prev, dados, dados_select,
                   train_data, test_data, clf, models_train, resultados,
                   names_models, results_test, results_train>>

\* results_test = ... / results_train = ...: the returned table is bound, or the
\* exception raised inside the call ends the run
UniteDone ==
    /\ pc \in {"unite_test", "unite_train"}
    /\ call.phase \in {"returned", "raised"}
    /\ call' = NoCall
    /\ IF call.phase = "raised"
       THEN /\ Raise(pc, call.exc)
            /\ UNCHANGED <<results_test, results_train>>
       ELSE /\ Goto(StepAfter(pc))
            /\ results_test' = IF pc = "unite_test" THEN call.out ELSE results_test
            /\ results_train' = IF pc = "unite_train" THEN call.out ELSE results_train
    /\ UNCHANGED <<sheet, disk, rng, run, prev, dados, dados_select,
                   train_data, test_data, clf, models_train, resultados, names_models>>

\* results_test.to_csv(...) / results_train.to_csv(...)
Write ==
    /\ pc \in {"write_test", "write_train"}
    /\ LET path == IF pc = "write_test" THEN TestPath ELSE TrainPath
           df == IF pc = "write_test" THEN results_test ELSE results_train
           o == OpenForWrite(disk)
       IN  IF ~o.ok
           THEN /\ disk' = [disk EXCEPT !.dir = o.dir]
                /\ Raise(pc, "OSError")
           ELSE \E complete \in BOOLEAN :
                   /\ disk' = [dir |-> o.dir,
                               files |-> {f \in disk.files : f.path # path}
                                         \cup {Csv(path, df, complete)}]
                   /\ IF complete THEN Goto(StepAfter(pc)) ELSE Raise(pc, "OSError")
    /\ UNCHANGED <<sheet, rng, run, prev, dados, dados_select, train_data, test_data,
                   clf, models_train, resultados, names_models, call,
                   results_test, results_train>>

Next ==
    \/ Read
    \/ AsType
    \/ Select
    \/ Split
    \/ SetupStep
    \/ Compare
    \/ Pull
    \/ CallUnite
    \/ UniteBegin
    \/ UniteIter
    \/ UniteReturn
    \/ UniteDone
    \/ Write

Spec == Init /\ [][Next]_vars

---------------------------------------------------------------------------
(* The split alone, run again and again on one dataset *)

\* dados_select as lines 26-39 leave it for a well-formed sheet of n rows
Selected(n) ==
    SelectCols(AsTypeStr(ReadExcel([exists |-> TRUE, cols |-> SelectColumns, n |-> n]),
                         "Profundidade"),
               SelectColumns)

InitSplit ==
    /\ pc = "split"
    /\ err = NoErr
    /\ sheet \in {[exists |-> TRUE, cols |-> SelectColumns, n |-> n] : n \in 0..MaxSplitRows}
    /\ disk = [dir |-> "ok", files |-> {}]
    /\ rng \in Entropy
    /\ run = 1
    /\ prev = NoPrev
    /\ dados = AsTypeStr(ReadExcel(sheet), "Profundidade")
    /\ dados_select = Selected(sheet.n)
    /\ train_data = NoFrame
    /\ test_data = NoFrame
    /\ clf = NoClf
    /\ models_train = NoModels
    /\ resultados = <<>>
    /\ names_models = <<>>
    /\ call = NoCall
    /\ results_test = NoFrame
    /\ results_train = NoFrame

\* The script started again on the same spreadsheet: a new process, whose
\* global generator starts wherever the OS entropy puts it
SplitAgain ==
    /\ pc \in {"setup", "failed"}
    /\ run < MaxRuns
    /\ run' = run + 1
    /\ prev' = [bound |-> TRUE, ok |-> pc = "setup", train |-> train_data, test |-> test_data]
    /\ rng' \in Entropy
    /\ pc' = "split"
    /\ err' = NoErr
    /\ train_data' = NoFrame
    /\ test_data' = NoFrame
    /\ UNCHANGED <<sheet, disk, dados, dados_select, clf, models_train, resultados,
                   names_models, call, results_test, results_train>>

NextSplit ==
    \/ Split
    \/ SplitAgain

SpecSplit == InitSplit /\ [][NextSplit]_vars

---------------------------------------------------------------------------
(* unite_predicts_models alone, on arguments of every shape *)

\* Trained estimators, distinct from one another
ModelLibrary == <<"lr", "knn", "dt", "svm", "br", "en">>

TrainedModels(k) ==
    [bound |-> TRUE, list |-> TRUE,
     items |-> [j \in 1..k |-> [id |-> ModelLibrary[j], fit |-> {}]]]

\* Names a caller may pass for the models
NamePool == {"LR", "RF"}

\* Identifier columns a caller may pass: columns of the dataset and one that is not
IdPool == {"ID", "Time", "Nope"}

SeqsUpTo(S, n) == UNION {[1..k -> S] : k \in 0..n}

IdArgs == {ListIds(l) : l \in SeqsUpTo(IdPool, MaxIds)} \cup {StrId("ID")}

InitUnite ==
    /\ pc = "harness"
    /\ err = NoErr
    /\ sheet = [exists |-> FALSE, cols |-> <<>>, n |-> 0]
    /\ disk = [dir |-> "ok", files |-> {}]
    /\ rng = 0
    /\ run = 1
    /\ prev = NoPrev
    /\ dados = NoFrame
    /\ dados_select = NoFrame
    /\ train_data = NoFrame
    /\ test_data = NoFrame
    /\ clf = NoClf
    /\ models_train = NoModels
    /\ resultados = <<>>
    /\ names_models = <<>>
    /\ call \in {CallOf(TrainedModels(k), Selected(n), vary, ids, names) :
                    k \in 0..MaxModels, n \in 1..MaxUniteRows, ids \in IdArgs,
                    names \in SeqsUpTo(NamePool, MaxModels)}
    /\ results_test = NoFrame
    /\ results_train = NoFrame

NextUnite ==
    \/ UniteBegin
    \/ UniteIter
    \/ UniteReturn

SpecUnite == InitUnite /\ [][NextUnite]_vars

---------------------------------------------------------------------------
(* Properties *)

IndexSet(df) == Range(df.index)

NoDuplicates(seq) == Cardinality(Range(seq)) = Len(seq)

\* The rows of sub are rows of df: each holds, in every column, the cells df
\* holds at the row of the same label (df has a RangeIndex: label = position)
RowsOf(sub, df) ==
    /\ ColNames(sub) = ColNames(df)
    /\ \A k \in 1..Len(sub.index) :
          /\ sub.index[k] \in IndexSet(df)
          /\ \A c \in 1..Len(sub.columns) :
                sub.columns[c].vals[k] = df.columns[c].vals[sub.index[k] + 1]

\* C1: after the split every input row is in exactly one of train and test:
\* the two are disjoint, their union is the input, their sizes add up to N,
\* and no row is duplicated inside a subset.
C1_SplitIsPartition ==
    train_data.bound =>
        /\ test_data.bound
        /\ IndexSet(train_data) \cap IndexSet(test_data) = {}
        /\ IndexSet(train_data) \cup IndexSet(test_data) = IndexSet(dados_select)
        /\ Len(train_data.index) + Len(test_data.index) = Len(dados_select.index)
        /\ NoDuplicates(train_data.index)
        /\ NoDuplicates(test_data.index)
        /\ RowsOf(train_data, dados_select)
        /\ RowsOf(test_data, dados_select)

\* C1 witness: a dataset of 10 rows split into 7 train rows and 3 test rows
C1_Witness ==
    /\ pc = "setup"
    /\ Len(dados_select.index) = 10
    /\ Len(train_data.index) = 7
    /\ Len(test_data.index) = 3

\* C2: a second run of the split on the same dataset, seed 42 and fraction 0.3,
\* puts every row in the same subset as the run before it did (and fails
\* exactly when the run before it failed).
C2_SplitIsDeterministic ==
    (prev.bound /\ pc \in {"setup", "failed"}) =>
        /\ prev.ok = (pc = "setup")
        /\ train_data = prev.train
        /\ test_data = prev.test

\* C2 witness: a second run has split a dataset of at least 5 rows
C2_Witness ==
    /\ prev.bound
    /\ run = 2
    /\ pc = "setup"
    /\ Len(dados_select.index) >= 5
    /\ test_data.bound

\* The identifier list as the caller gave it
GivenIds == IF call.col_name_id.kind = "str"
            THEN <<call.col_name_id.s>>
            ELSE call.col_name_id.l

\* The positions of the prediction columns in the returned table
PredPositions == (Len(GivenIds) + 2)..Len(call.out.columns)

\* C3: the table returned for a list of identifier columns has
\* len(id_columns) + 1 + len(models) columns and as many rows as the dataset.
C3_Shape ==
    (call.phase = "returned" /\ call.col_name_id.kind = "list") =>
        /\ Len(call.out.columns) =
               Len(call.col_name_id.l) + 1 + Len(call.models_predict.items)
        /\ Len(call.out.index) = Len(call.data.index)
        /\ \A c \in 1..Len(call.out.columns) :
               Len(call.out.columns[c].vals) = Len(call.data.index)

\* C3 witness: a table returned for 2 identifier columns, 3 models and 5 rows
C3_Witness ==
    /\ call.phase = "returned"
    /\ call.col_name_id.kind = "list"
    /\ Len(call.col_name_id.l) = 2
    /\ Len(call.models_predict.items) = 3
    /\ Len(call.data.index) = 5

\* C4: the returned columns are the identifier columns in the order given, then
\* the observed target, then one prediction column per model in the order of
\* the model list, the column of the model named X being X_prediction_label
\* and holding that model's predictions.
C4_ColumnOrder ==
    call.phase = "returned" =>
        /\ ColNames(call.out) =
               GivenIds \o <<call.col_name_target>> \o
               [k \in 1..Len(call.models_predict.items) |->
                   call.names_models[k] \o "_prediction_label"]
        /\ \A k \in 1..Len(GivenIds) :
               call.out.columns[k] = GetCol(call.data, GivenIds[k])
        /\ call.out.columns[Len(GivenIds) + 1] = GetCol(call.data, call.col_name_target)
        /\ \A k \in 1..Len(call.models_predict.items) :
               call.out.columns[Len(GivenIds) + 1 + k].vals =
                   [r \in 1..Len(call.data.index) |->
                       PredCell(call.models_predict.items[k], call.data.index[r])]

\* C4 witness: models "LR" and "RF", identifier "ID", target "Umidade", 5 rows
C4_Witness ==
    /\ call.phase = "returned"
    /\ call.col_name_id = ListIds(<<"ID">>)
    /\ call.names_models = <<"LR", "RF">>
    /\ Len(call.models_predict.items) = 2
    /\ Len(call.out.index) = 5
    /\ ColNames(call.out) = <<"ID", "Umidade", "LR_prediction_label", "RF_prediction_label">>

\* C5: every model's name appears in exactly one prediction column name of the
\* returned table.
C5_NameInExactlyOneColumn ==
    call.phase = "returned" =>
        \A k \in 1..Len(call.models_predict.items) :
            Cardinality({j \in PredPositions :
                            Contains(call.out.columns[j].name, call.names_models[k])}) = 1

\* C6: when two models of the list have the same name, the prediction columns
\* of the returned table still have pairwise distinct names, and none is lost.
C6_CollisionAvoided ==
    (/\ call.phase = "returned"
     /\ \E a, b \in 1..Len(call.models_predict.items) :
            a # b /\ call.names_models[a] = call.names_models[b]) =>
        /\ \A i, j \in PredPositions :
               i # j => call.out.columns[i].name # call.out.columns[j].name
        /\ Cardinality(PredPositions) = Len(call.models_predict.items)

\* The tables the run has computed so far
Computed == {t \in {results_test, results_train} : t.bound}

\* The raw name of an estimator's algorithm: its id in PyCaret's model library
AlgorithmName(model) == model.id

\* C7 as claimed: the prediction column of the model at position k is labelled
\* with entry k of the results table's index column, and that label is never
\* the raw algorithm name alone nor the label of another model.
C7_RankQualifiedLabel ==
    \A t \in Computed :
        \A k \in 1..Len(models_train.items) :
            LET col == t.columns[Len(IdColumns) + 1 + k]
            IN  /\ col.name = resultados[k].index \o "_prediction_label"
                /\ col.name # AlgorithmName(models_train.items[k]) \o "_prediction_label"
                /\ \A j \in 1..Len(models_train.items) :
                       j # k => t.columns[Len(IdColumns) + 1 + j].name # col.name

\* C7 amended: in a computed table, the prediction column of the model at
\* position k of the list returned by compare_models is labelled with entry k
\* of the results table's index column, which is the algorithm id of that very
\* model, and holds that model's predictions; two models never share a label.
C7_LabelPairing ==
    \A t \in Computed :
        \A k \in 1..Len(models_train.items) :
            LET col == t.columns[Len(IdColumns) + 1 + k]
            IN  /\ col.name = resultados[k].index \o "_prediction_label"
                /\ resultados[k].index = models_train.items[k].id
                /\ col.vals = [r \in 1..Len(t.index) |->
                                  PredCell(models_train.items[k], t.index[r])]
                /\ \A j \in 1..Len(models_train.items) :
                       j # k => t.columns[Len(IdColumns) + 1 + j].name # col.name

\* C7 witness: both tables computed from three ranked models
C7_Witness ==
    /\ results_test.bound
    /\ results_train.bound
    /\ Len(models_train.items) = 3

\* The table a path of the output directory is the export of
TableOf(path) == IF path = TestPath THEN results_test ELSE results_train

\* Every file on disk is the export of a computed table, and is there only
\* once both tables are computed
FilesAreComputed ==
    \A f \in disk.files :
        /\ results_test.bound
        /\ results_train.bound
        /\ f.path \in {TestPath, TrainPath}
        /\ f.header = ColNames(TableOf(f.path))
        /\ f.complete => f = Csv(f.path, TableOf(f.path), TRUE)

\* A failed run has written nothing before both tables were computed
FailedBeforeTables ==
    (pc = "failed" /\ err.at \notin {"write_test", "write_train"}) => disk.files = {}

\* C8: a failure at any step ends the run (nothing happens after it), and in
\* every state no file is on disk whose table was not computed: neither CSV is
\* written until both prediction tables are complete.
C8_FailureAtomic ==
    /\ [](FilesAreComputed /\ FailedBeforeTables)
    /\ [][pc = "failed" => UNCHANGED vars]_vars

\* C8 witness: the run failed in a prediction on the train subset, after the
\* test table was computed, and no file is on disk
C8_Witness ==
    /\ pc = "failed"
    /\ err.at = "unite_train"
    /\ results_test.bound
    /\ disk.files = {}

Exporting == pc \in {"write_test", "write_train"}

\* C9 as claimed: an export that finds the directory missing creates it and
\* writes the semicolon-delimited file.
C9_CreatesDirectory ==
    [][(Exporting /\ disk.dir = "missing") =>
          /\ disk'.dir = "ok"
          /\ \E f \in disk'.files :
                f.path = (IF pc = "write_test" THEN TestPath ELSE TrainPath)
                /\ f.complete /\ f.sep = ";"]_vars

\* C9 amended: an export that finds the directory missing fails with a write
\* error, creates neither the directory nor a file, and ends the run.
C9_WriteError ==
    [][(Exporting /\ disk.dir = "missing") =>
          /\ pc' = "failed"
          /\ err' = [at |-> pc, exc |-> "OSError"]
          /\ disk' = disk]_vars

\* C9 witness: the export of the test table failed on the missing directory
C9_Witness ==
    /\ pc = "failed"
    /\ err = [at |-> "write_test", exc |-> "OSError"]
    /\ disk = [dir |-> "missing", files |-> {}]
    /\ results_test.bound
    /\ results_train.bound

\* The trainer is configured once, with rows of the train subset only
TrainerSeesTrainOnly ==
    /\ clf.setups <= 1
    /\ clf.bound =>
          /\ clf.setups = 1
          /\ IndexSet(clf.data) \subseteq IndexSet(train_data)
          /\ IndexSet(clf.data) \cap IndexSet(test_data) = {}
    /\ \A k \in 1..Len(models_train.items) :
          /\ models_train.items[k].fit \subseteq IndexSet(train_data)
          /\ models_train.items[k].fit \cap IndexSet(test_data) = {}

\* Predictions use the selected models, on the test subset first
PredictionsAfterSelection ==
    /\ call.phase # "idle" =>
          /\ models_train.bound
          /\ call.models_predict = models_train
          /\ call.data = (IF pc = "unite_test" THEN test_data ELSE train_data)
    /\ (pc = "unite_train" \/ results_train.bound) => results_test.bound
    /\ pc = "unite_test" => ~results_train.bound

\* C10: the trainer is configured exactly once and sees train rows only; test
\* rows enter predictions only, after the models are selected; the same model
\* list predicts on test, then on train, and no prediction changes the models,
\* the experiment, the train subset or the test subset.
C10_NoLeakage ==
    /\ [](TrainerSeesTrainOnly /\ PredictionsAfterSelection)
    /\ [][models_train.bound =>
             /\ models_train' = models_train
             /\ clf' = clf
             /\ train_data' = train_data
             /\ test_data' = test_data]_vars

\* C10 witness: both tables computed by at least two models, with a test
\* subset that is not empty
C10_Witness ==
    /\ results_test.bound
    /\ results_train.bound
    /\ Len(models_train.items) >= 2
    /\ Len(test_data.index) >= 1
    /\ clf.setups = 1

====
